---- MODULE Spec2Model ----
(***************************************************************************)
(* Collapsed Gibbs sampling for the hierarchical Dirichlet process in the  *)
(* Chinese-restaurant-franchise representation (src/src/hdp/cgs.py).       *)
(*                                                                         *)
(* Arrays are functions over 0..n-1, so that every index of the model is   *)
(* the index the source uses.  The state is the sampler object's fields    *)
(* (_K, _D, _V, _n_kv, _n_kd, _m_k, _t_dv, _k_dt, _n_dt), the locals of    *)
(* sample() that live across steps, and the position pc inside sample().   *)
(*                                                                         *)
(* Random draws.  Every categorical weight of the source is a count factor *)
(* (n_dt, m_k, m_k - 1) times a strictly positive real (f[k], f_new,       *)
(* gamma / V, the exponential of a finite log-gamma ratio), or is exactly  *)
(* zero (an empty table, log(0), the forced -1e500).  The model keeps the  *)
(* count factor and takes the positive real as 1; the uniform variate      *)
(* numpy.random.random() in [0, 1) is r / (2 * total) for an integer r in  *)
(* 0 .. 2 * total - 1, and the index is the first one whose cumulative     *)
(* weight reaches the variate, as in the source.  Every slot of non-zero   *)
(* weight is reachable by some r, and r = 0 is the variate 0.0.            *)
(***************************************************************************)
EXTENDS Integers, Sequences, FiniteSets, TLC

\* ---- bounds of the model ------------------------------------------------
MaxDocs == 2      \* at most MaxDocs documents, keys drawn from 0..MaxDocs
MaxLen  == 2      \* a document has 1..MaxLen tokens
MaxWord == 1      \* word-ids are drawn from 0..MaxWord
MaxIter == 2      \* sample(iteration) with iteration in 1..MaxIter
MaxTokens == 3    \* the documents of a corpus have at most MaxTokens tokens together

\* ---- program constants --------------------------------------------------
InitK    == 1     \* _initialize(data, K=1, ...)
UInt8Mod == 256   \* numpy.uint8(...) keeps the index modulo 2^8

VARIABLES corpus, iteration, pc, err,
          K, D, V, n_kv, n_kd, m_k, t_dv, k_dt, n_dt,
          iter, document_index, word_index, todo

vars == <<corpus, iteration, pc, err, K, D, V, n_kv, n_kd, m_k, t_dv, k_dt, n_dt,
          iter, document_index, word_index, todo>>

\* ---- arrays -------------------------------------------------------------
ALen(a) == Cardinality(DOMAIN a)

EmptyArr == [j \in {} |-> 0]

Zeros(n) == [j \in 0..(n - 1) |-> 0]

\* numpy.hstack((a, [x])) / numpy.vstack((a, [row]))
Stack(a, x) == [j \in 0..ALen(a) |-> IF j < ALen(a) THEN a[j] ELSE x]

RECURSIVE SumTo(_, _)
\* a[0] + ... + a[n-1]
SumTo(a, n) == IF n = 0 THEN 0 ELSE a[n - 1] + SumTo(a, n - 1)

ASum(a) == SumTo(a, ALen(a))

\* variant of Ascending: the members come in descending order
Descending(S) == [j \in 0..(Cardinality(S) - 1) |->
                    CHOOSE x \in S : Cardinality({y \in S : y > x}) = j]

\* the members of the index set S in ascending order (numpy.nonzero(...)[0])
Ascending(S) == [j \in 0..(Cardinality(S) - 1) |->
                   CHOOSE x \in S : Cardinality({y \in S : y < x}) = j]

\* numpy.delete(a, unused): the entries of a whose index is not in unused
Delete(a, unused) ==
  LET keep == Ascending(DOMAIN a \ unused)
  IN  [j \in DOMAIN keep |-> a[keep[j]]]

\* ---- the corpus ---------------------------------------------------------
\* import_monolingual_data: int(doc_id) -> [int(item) ...]; the line is
\* stripped and must split in two at the tab, so no document is empty.
Docs == UNION {[0..(l - 1) -> 0..MaxWord] : l \in 1..MaxLen}

KeySets == {ks \in SUBSET (0..MaxDocs) : Cardinality(ks) <= MaxDocs}

RECURSIVE TotalLen(_, _)
TotalLen(data, ks) ==
  IF ks = {} THEN 0
  ELSE LET d == CHOOSE x \in ks : TRUE
       IN  Cardinality(DOMAIN data[d]) + TotalLen(data, ks \ {d})

Corpora == {data \in UNION {[ks -> Docs] : ks \in KeySets} :
              TotalLen(data, DOMAIN data) <= MaxTokens}

\* the object's fields as one record, for the operators below
State == [corpus |-> corpus, D |-> D, V |-> V,
          K |-> K, n_kv |-> n_kv, n_kd |-> n_kd, m_k |-> m_k,
          t_dv |-> t_dv, k_dt |-> k_dt, n_dt |-> n_dt, err |-> err]

\* the fields take the values of the record s
Store(s) ==
  /\ corpus' = s.corpus /\ D' = s.D /\ V' = s.V
  /\ K' = s.K /\ n_kv' = s.n_kv /\ n_kd' = s.n_kd /\ m_k' = s.m_k
  /\ t_dv' = s.t_dv /\ k_dt' = s.k_dt /\ n_dt' = s.n_dt /\ err' = s.err

Init ==
  /\ corpus \in Corpora
  /\ iteration \in 1..MaxIter
  /\ pc = "start"
  /\ err = ""
  /\ K = 0 /\ D = 0 /\ V = 0
  /\ n_kv = EmptyArr /\ n_kd = EmptyArr /\ m_k = EmptyArr
  /\ t_dv = EmptyArr /\ k_dt = EmptyArr /\ n_dt = EmptyArr
  /\ iter = 0 /\ document_index = 0 /\ word_index = 0
  /\ todo = {}

\* ---- _initialize --------------------------------------------------------
\* the token occurrences (d, i) of the documents ds
Tokens(data, ds) == UNION {{<<d, i>> : i \in DOMAIN data[d]} : d \in ds}

\* self._vocab = list(set(self._vocab)): the distinct word-ids of the corpus
Vocab(data) == {data[p[1]][p[2]] : p \in Tokens(data, DOMAIN data)}

\* the first index of doc whose word-id is no column of n_kv, or ALen(doc)
FirstBadWord(doc, nV) ==
  LET bad == {i \in DOMAIN doc : doc[i] >= nV}
  IN  IF bad = {} THEN ALen(doc) ELSE CHOOSE i \in bad : \A j \in bad : i <= j

\* for d in xrange(self._D): the documents whose loop body raises
\*   self._corpus[d]      KeyError   when d is no key of the mapping
\*   self._n_kv[0, v]     IndexError when v >= V
FailingDocs(data, nD, nV) ==
  {d \in 0..(nD - 1) : d \notin DOMAIN data \/ FirstBadWord(data[d], nV) < ALen(data[d])}

\* variant of InitTableCounts: the document's length is not added
InitTableCounts_zero(doc) == Zeros(1)

\* self._n_dt[d] = numpy.zeros(1) + len(self._corpus[d])
InitTableCounts(doc) == [t \in 0..0 |-> ALen(doc)]

\* the fields after _initialize(data); err names the exception that ended it
initialize(data) ==
  LET nD      == Cardinality(DOMAIN data)
      nV      == Cardinality(Vocab(data))
      failing == FailingDocs(data, nD, nV)
      bad     == IF failing = {} THEN nD
                 ELSE CHOOSE d \in failing : \A e \in failing : d <= e
      \* documents whose loop body ran to its end
      seated  == 0..(bad - 1)
      \* documents whose table vectors were created
      opened  == seated \cup (IF bad < nD /\ bad \in DOMAIN data THEN {bad} ELSE {})
      \* tokens counted into n_kv[0]
      counted == {p \in Tokens(data, opened) :
                    p[1] = bad => p[2] < FirstBadWord(data[bad], nV)}
  IN  [corpus |-> data,
       D    |-> nD,
       V    |-> nV,
       K    |-> InitK,
       n_kv |-> [k \in 0..(InitK - 1) |-> [v \in 0..(nV - 1) |->
                  IF k = 0 THEN Cardinality({p \in counted : data[p[1]][p[2]] = v})
                  ELSE 0]],
       n_kd |-> [k \in 0..(InitK - 1) |-> [d \in 0..(nD - 1) |->
                  IF k = 0 /\ d \in seated THEN ALen(data[d]) ELSE 0]],
       m_k  |-> [k \in 0..(InitK - 1) |-> IF k = 0 THEN Cardinality(seated) ELSE 0],
       t_dv |-> [d \in opened |-> Zeros(ALen(data[d]))],
       k_dt |-> [d \in opened |-> Zeros(1)],
       n_dt |-> [d \in opened |-> InitTableCounts(data[d])],
       err  |-> IF failing = {} THEN ""
                ELSE IF bad \notin DOMAIN data THEN "KeyError" ELSE "IndexError"]

Initialize ==
  /\ pc = "start"
  /\ LET s == initialize(corpus)
     IN  /\ Store(s)
         \* sample(iteration): the first sweep starts at document 0, token 0
         /\ pc' = IF s.err # "" THEN "error"
                  ELSE IF s.D = 0 THEN "compact" ELSE "retract"
  /\ iter' = 0 /\ document_index' = 0 /\ word_index' = 0
  /\ UNCHANGED <<iteration, todo>>

\* ---- update_params ------------------------------------------------------
\* an assert of the source that does not hold ends the run
Failed(s) == [s EXCEPT !.err = "AssertionError"]

\* numpy.all(a >= 0) over a vector / over a matrix
AllNonNeg(a) == \A j \in DOMAIN a : a[j] >= 0

AllNonNeg2(m) == \A j \in DOMAIN m : AllNonNeg(m[j])

\* does the table count change with this update of a table that now seats n
\* variants of TableEmptied: the count drops at every retraction / at none
TableEmptied_always(update, n) == update = -1

TableEmptied_never(update, n) == FALSE

TableEmptied(update, n) == update = -1 /\ n = 0

\* variant of TableOpened: the count rises at every seating
TableOpened_always(update, n) == update = 1

TableOpened(update, n) == update = 1 /\ n = 1

update_params(s, d, i, update) ==
  LET table_id == s.t_dv[d][i]
      topic_id == s.k_dt[d][table_id]
      word_id  == s.corpus[d][i]
      s1 == [s  EXCEPT !.n_dt[d][table_id] = @ + update]
      s2 == [s1 EXCEPT !.n_kv[topic_id][word_id] = @ + update]
      s3 == [s2 EXCEPT !.n_kd[topic_id][d] = @ + update]
      s4 == IF TableEmptied(update, s3.n_dt[d][table_id])
            THEN [s3 EXCEPT !.m_k[topic_id] = @ - 1] ELSE s3
      s5 == IF TableOpened(update, s4.n_dt[d][table_id])
            THEN [s4 EXCEPT !.m_k[topic_id] = @ + 1] ELSE s4
  IN  IF ~AllNonNeg(s1.n_dt[d]) THEN Failed(s1)
      ELSE IF ~AllNonNeg2(s2.n_kv) THEN Failed(s2)
      ELSE IF ~AllNonNeg2(s3.n_kd) THEN Failed(s3)
      ELSE IF ~AllNonNeg(s5.m_k) THEN Failed(s5)
      ELSE IF ~AllNonNeg(s5.k_dt[d]) THEN Failed(s5)
      ELSE s5

\* variant of Occupied: the table loop finds no table to resample
Occupied_none(s, d) == {}

\* the tables of document d that the table loop resamples (line 188); the
\* loop changes no n_dt, so they are the same at every turn of the loop
Occupied(s, d) == {t \in DOMAIN s.k_dt[d] : s.n_dt[d][t] > 0}

\* sample, line 120: self.update_params(document_index, word_index, -1)
Retract ==
  /\ pc = "retract"
  /\ LET s == update_params(State, document_index, word_index, -1)
     IN  /\ Store(s)
         /\ pc' = IF s.err # "" THEN "error" ELSE "draw"
  /\ UNCHANGED <<iteration, iter, document_index, word_index, todo>>

\* sample, lines 181/183: self.update_params(document_index, word_index, +1),
\* then the next token, or the tables of the document (line 186)
Reseat ==
  /\ pc = "reseat"
  /\ LET s    == update_params(State, document_index, word_index, 1)
         last == word_index + 1 >= ALen(corpus[document_index])
     IN  /\ Store(s)
         /\ pc' = IF s.err # "" THEN "error" ELSE IF last THEN "table" ELSE "retract"
         /\ word_index' = IF s.err = "" /\ ~last THEN word_index + 1 ELSE word_index
         /\ todo' = IF s.err = "" /\ last THEN Occupied(s, document_index) ELSE todo
  /\ UNCHANGED <<iteration, iter, document_index>>

\* ---- categorical draws --------------------------------------------------
\* the uniform variates r / (2 * sum(w)) of [0, 1)
Draws(w) == 0..(2 * ASum(w) - 1)

\* numpy.nonzero(numpy.cumsum(w / sum(w)) >= r / (2 * sum(w)))[0][0]
InvCDF(w, r) ==
  CHOOSE j \in DOMAIN w :
    /\ 2 * SumTo(w, j + 1) >= r
    /\ \A h \in 0..(j - 1) : 2 * SumTo(w, h + 1) < r

\* numpy.uint8(index)
UInt8(x) == x % UInt8Mod

\* ---- word-to-table step -------------------------------------------------
\* table_probablity: f[k_dt[d][t]] * n_dt[d][t] for an occupied table, 0. for an
\* empty one, alpha * f_new for the new table
TableWeights(s, d) ==
  LET T == ALen(s.k_dt[d])
  IN  [t \in 0..T |-> IF t < T
                      THEN (IF s.n_dt[d][t] > 0 THEN s.n_dt[d][t] ELSE 0)
                      ELSE 1]

\* topic_probability: m_k[k] * f[k] for a topic, gamma / V for the new topic
TopicWeights(s) == [k \in 0..s.K |-> IF k < s.K THEN s.m_k[k] ELSE 1]

\* variant of open_table: the new table is born with a count of one
open_table_ones(s, d) == [s EXCEPT !.n_dt[d] = Stack(@, 1), !.k_dt[d] = Stack(@, 0)]

\* expand the vectors to fit in new table
open_table(s, d) == [s EXCEPT !.n_dt[d] = Stack(@, 0), !.k_dt[d] = Stack(@, 0)]

\* expand the matrices to fit in new topic
open_topic(s) ==
  [s EXCEPT !.K    = @ + 1,
            !.n_kv = Stack(@, Zeros(s.V)),
            !.n_kd = Stack(@, Zeros(s.D)),
            !.m_k  = Stack(@, 0)]

\* sample, lines 122-180 for token i of document d: u draws the table and, for
\* a new table, u2 draws its topic.  The drawn topic k_new only decides whether
\* the matrices grow; it is stored nowhere and read by no later line.
seat_word(s, d, i, u, u2) ==
  LET new_table == UInt8(InvCDF(TableWeights(s, d), u))
      s1 == [s EXCEPT !.t_dv[d][i] = new_table]
      s2 == open_table(s1, d)
      k_new == UInt8(InvCDF(TopicWeights(s2), u2))
  IN  IF new_table = ALen(s.k_dt[d])
      THEN (IF k_new = s.K THEN open_topic(s2) ELSE s2)
      ELSE s1

\* is the table drawn by u the new table of document d
DrawsNewTable(s, d, u) == UInt8(InvCDF(TableWeights(s, d), u)) = ALen(s.k_dt[d])

SampleTable ==
  /\ pc = "draw"
  /\ LET d == document_index
         i == word_index
     IN  \E u \in Draws(TableWeights(State, d)) :
           \E u2 \in (IF DrawsNewTable(State, d, u)
                      THEN Draws(TopicWeights(open_table(State, d))) ELSE {0}) :
             Store(seat_word(State, d, i, u, u2))
  /\ pc' = "reseat"
  /\ UNCHANGED <<iteration, iter, document_index, word_index, todo>>

\* ---- table-to-topic step ------------------------------------------------
\* variant of WordFreq: the word-ids are counted over the whole document
WordFreq_document(s, d, t, v) ==
  Cardinality({i \in DOMAIN s.corpus[d] : s.corpus[d][i] = v})

\* selected_word_freq_dist: how often word-id v sits on table t of document d
WordFreq(s, d, t, v) ==
  Cardinality({i \in DOMAIN s.corpus[d] : s.t_dv[d][i] = t /\ s.corpus[d][i] = v})

\* exp(topic_probablity): exp(-1e500) = 0 for the old topic with m_k <= 1,
\* (m_k - 1) * ratio for the old topic otherwise, m_k * ratio for another topic
\* (exp(log(0)) = 0), gamma * ratio for the new topic
TableTopicWeights(s, old_topic) ==
  [k \in 0..s.K |-> IF k = s.K THEN 1
                    ELSE IF k = old_topic
                         THEN (IF s.m_k[k] <= 1 THEN 0 ELSE s.m_k[k] - 1)
                         ELSE s.m_k[k]]

\* variant of move_table: the counts are added to new_topic and stay in old_topic
move_table_copy(s, d, t, old_topic, new_topic) ==
  LET s1 == [s EXCEPT !.k_dt[d][t] = new_topic]
      s2 == IF new_topic = s.K THEN open_topic(s1) ELSE s1
      n  == s.n_dt[d][t]
      s3 == [s2 EXCEPT !.m_k[old_topic] = @ - 1]
      s4 == [s3 EXCEPT !.m_k[new_topic] = @ + 1]
      s6 == [s4 EXCEPT !.n_kd[new_topic][d] = @ + n]
  IN  [s6 EXCEPT !.n_kv[new_topic] =
                   [v \in DOMAIN @ |-> @[v] + WordFreq(s, d, t, v)]]

\* lines 233-255: the table and its words move from old_topic to new_topic
move_table(s, d, t, old_topic, new_topic) ==
  LET s1 == [s EXCEPT !.k_dt[d][t] = new_topic]
      s2 == IF new_topic = s.K THEN open_topic(s1) ELSE s1
      n  == s.n_dt[d][t]
      s3 == [s2 EXCEPT !.m_k[old_topic] = @ - 1]
      s4 == [s3 EXCEPT !.m_k[new_topic] = @ + 1]
      s5 == [s4 EXCEPT !.n_kd[old_topic][d] = @ - n]
      s6 == [s5 EXCEPT !.n_kd[new_topic][d] = @ + n]
      s7 == [s6 EXCEPT !.n_kv[old_topic] =
                         [v \in DOMAIN @ |-> @[v] - WordFreq(s, d, t, v)]]
      s8 == [s7 EXCEPT !.n_kv[new_topic] =
                         [v \in DOMAIN @ |-> @[v] + WordFreq(s, d, t, v)]]
  IN  IF ~AllNonNeg(s7.n_kv[old_topic]) THEN Failed(s7) ELSE s8

\* lines 186-255 for one table_index of the permutation
resample_table(s, d, t, u) ==
  LET old_topic == s.k_dt[d][t]
      new_topic == UInt8(InvCDF(TableTopicWeights(s, old_topic), u))
  IN  IF new_topic # old_topic THEN move_table(s, d, t, old_topic, new_topic) ELSE s

\* numpy.random.permutation(xrange(len(k_dt[d]))) is revealed one table at a
\* time: todo holds the occupied tables the permutation has not yet reached
\* (the loop body does nothing for an empty table)
ResampleTable ==
  /\ pc = "table"
  /\ \E table_index \in todo :
       LET d == document_index
           rest == todo \ {table_index}
       IN  /\ \E u \in Draws(TableTopicWeights(State, k_dt[d][table_index])) :
                Store(resample_table(State, d, table_index, u))
           /\ todo' = rest
           /\ pc' = IF err' # "" THEN "error"
                    ELSE IF rest # {} THEN "table"
                    ELSE IF d + 1 < D THEN "retract" ELSE "compact"
           /\ document_index' = IF err' = "" /\ rest = {} /\ d + 1 < D THEN d + 1 ELSE d
           /\ word_index' = IF err' = "" /\ rest = {} /\ d + 1 < D THEN 0 ELSE word_index
  /\ UNCHANGED <<iteration, iter>>

\* ---- compact_params -----------------------------------------------------
\* variant of Relabel: the surviving indices are not renumbered
Relabel_none(a, used, j, n) == a

RECURSIVE Relabel(_, _, _, _)
\* for j in xrange(n): a[numpy.nonzero(a == used[j])[0]] = j, one j after
\* the other, each on the array the ones before have rewritten
Relabel(a, used, j, n) ==
  IF j >= n THEN a
  ELSE Relabel([x \in DOMAIN a |-> IF a[x] = used[j] THEN j ELSE a[x]], used, j + 1, n)

\* variant of Unused: no index is found unused
Unused_none(a) == {}

\* numpy.nonzero(a == 0)[0] and numpy.nonzero(a != 0)[0]
Unused(a) == {j \in DOMAIN a : a[j] = 0}

Used(a) == Ascending({j \in DOMAIN a : a[j] # 0})

\* variant of compact_doc: the unused tables stay in k_dt
compact_doc_keep_k_dt(s, d, used_topics) ==
  LET unused_tables == Unused(s.n_dt[d])
      used_tables   == Used(s.n_dt[d])
      n_dt_d        == Delete(s.n_dt[d], unused_tables)
  IN  [t_dv |-> Relabel(s.t_dv[d], used_tables, 0, ALen(n_dt_d)),
       k_dt |-> Relabel(s.k_dt[d], used_topics, 0, s.K),
       n_dt |-> n_dt_d]

\* lines 307-323 for document d; s holds the compacted topic matrices
compact_doc(s, d, used_topics) ==
  LET unused_tables == Unused(s.n_dt[d])
      used_tables   == Used(s.n_dt[d])
      n_dt_d        == Delete(s.n_dt[d], unused_tables)
      k_dt_d        == Delete(s.k_dt[d], unused_tables)
  IN  [t_dv |-> Relabel(s.t_dv[d], used_tables, 0, ALen(n_dt_d)),
       k_dt |-> Relabel(k_dt_d, used_topics, 0, s.K),
       n_dt |-> n_dt_d]

\* variant of compact_topics: m_k keeps its unused entries
compact_topics_keep_m_k(s) ==
  LET unused_topics == Unused(s.m_k)
      used_topics   == Used(s.m_k)
      s1 == [s  EXCEPT !.K = @ - Cardinality(unused_topics)]
      s2 == [s1 EXCEPT !.n_kd = Delete(@, unused_topics)]
      s3 == [s2 EXCEPT !.n_kv = Delete(@, unused_topics)]
  IN  IF ~(s1.K >= 1 /\ s1.K = ALen(used_topics)) THEN Failed(s1)
      ELSE IF ALen(s2.n_kd) # s2.K THEN Failed(s2)
      ELSE IF ALen(s3.n_kv) # s3.K THEN Failed(s3)
      ELSE s3

\* lines 294-305: the rows of the unused topics are deleted
compact_topics(s) ==
  LET unused_topics == Unused(s.m_k)
      used_topics   == Used(s.m_k)
      s1 == [s  EXCEPT !.K = @ - Cardinality(unused_topics)]
      s2 == [s1 EXCEPT !.n_kd = Delete(@, unused_topics)]
      s3 == [s2 EXCEPT !.n_kv = Delete(@, unused_topics)]
      s4 == [s3 EXCEPT !.m_k = Delete(@, unused_topics)]
  IN  IF ~(s1.K >= 1 /\ s1.K = ALen(used_topics)) THEN Failed(s1)
      ELSE IF ALen(s2.n_kd) # s2.K THEN Failed(s2)
      ELSE IF ALen(s3.n_kv) # s3.K THEN Failed(s3)
      ELSE IF ALen(s4.m_k) # s4.K THEN Failed(s4)
      ELSE s4

compact_params(s) ==
  LET used_topics == Used(s.m_k)
      s4   == compact_topics(s)
      docs == [d \in 0..(s.D - 1) |-> compact_doc(s4, d, used_topics)]
  IN  IF s4.err # "" THEN s4
      ELSE [s4 EXCEPT !.t_dv = [d \in DOMAIN @ |-> docs[d].t_dv],
                      !.k_dt = [d \in DOMAIN @ |-> docs[d].k_dt],
                      !.n_dt = [d \in DOMAIN @ |-> docs[d].n_dt]]

\* sample, line 258, and the head of the next sweep (line 114)
Compact ==
  /\ pc = "compact"
  /\ LET s    == compact_params(State)
         more == iter + 1 < iteration
     IN  /\ Store(s)
         /\ pc' = IF s.err # "" THEN "error" ELSE IF more THEN "retract" ELSE "done"
         /\ iter' = IF s.err = "" THEN iter + 1 ELSE iter
         /\ document_index' = IF s.err = "" /\ more THEN 0 ELSE document_index
         /\ word_index' = IF s.err = "" /\ more THEN 0 ELSE word_index
  /\ UNCHANGED <<iteration, todo>>

Next == Initialize \/ Retract \/ SampleTable \/ Reseat \/ ResampleTable \/ Compact

Spec == Init /\ [][Next]_vars

\* ---- positions ----------------------------------------------------------
\* no update is half done: not between a token's retraction and its re-seating
Settled == err = "" /\ pc \in {"retract", "table", "compact", "done"}

\* the state right after a compact_params call that returned
JustCompacted ==
  /\ err = "" /\ iter >= 1
  /\ pc = "done" \/ (pc = "retract" /\ document_index = 0 /\ word_index = 0)

\* the documents of the scenarios: [0,0,0,1,1] alone
Scenario == [d \in {0} |-> [i \in 0..4 |-> IF i < 3 THEN 0 ELSE 1]]

\* ---- C1 -----------------------------------------------------------------
\* C1: after initialization and after every completed update (token
\* resampling, table resampling, compaction) the table counts of every
\* document add up to the document's length.
C1_Conservation ==
  Settled => \A d \in 0..(D - 1) : ASum(n_dt[d]) = ALen(corpus[d])

\* a second sweep has started and a document is spread over two tables
C1_Witness ==
  /\ Settled /\ iter >= 1
  /\ \E d \in 0..(D - 1) : \E t1, t2 \in DOMAIN n_dt[d] :
       t1 # t2 /\ n_dt[d][t1] > 0 /\ n_dt[d][t2] > 0

\* ---- C2 -----------------------------------------------------------------
\* C2: no entry of n_kv, n_kd, n_dt or m_k is ever negative, so no
\* non-negativity assert of update_params or of the table move fails.
C2_NonNegative ==
  /\ AllNonNeg2(n_kv) /\ AllNonNeg2(n_kd) /\ AllNonNeg(m_k)
  /\ \A d \in DOMAIN n_dt : AllNonNeg(n_dt[d])

\* a retraction has emptied a table and taken the last table of a topic
C2_Witness ==
  /\ pc = "draw"
  /\ n_dt[document_index][t_dv[document_index][word_index]] = 0
  /\ m_k[k_dt[document_index][t_dv[document_index][word_index]]] = 0

\* ---- C3 -----------------------------------------------------------------
\* C3: right after compaction, for every topic k in [0,K), m_k[k] is zero
\* exactly when no table of any document is assigned to k.
C3_Consistency ==
  JustCompacted =>
    \A k \in 0..(K - 1) :
      (m_k[k] = 0) <=> ~(\E d \in DOMAIN k_dt : \E t \in DOMAIN k_dt[d] : k_dt[d][t] = k)

\* compaction has left two topics
C3_Witness == JustCompacted /\ K >= 2

\* ---- C4 -----------------------------------------------------------------
\* C4: right after compaction the topic indices in use are exactly 0..K-1 and
\* the table indices in use in document d are exactly 0..len(k_dt[d])-1.
C4_Contiguity ==
  JustCompacted =>
    /\ UNION {{k_dt[d][t] : t \in DOMAIN k_dt[d]} : d \in DOMAIN k_dt} = 0..(K - 1)
    /\ \A d \in 0..(D - 1) :
         {t_dv[d][i] : i \in DOMAIN t_dv[d]} = 0..(ALen(k_dt[d]) - 1)

\* compaction has left two topics and a document with two tables
C4_Witness ==
  /\ JustCompacted /\ K >= 2
  /\ \E d \in 0..(D - 1) : ALen(k_dt[d]) >= 2

\* ---- C5 -----------------------------------------------------------------
\* C5: from every state of a run, a second compact_params right after a first
\* one that returned changes nothing.
C5_Idempotent ==
  (err = "" /\ pc # "start") =>
    LET once == compact_params(State)
    IN  once.err = "" => compact_params(once) = once

\* a sweep ends with an unused topic and an empty table, which the first
\* compaction removes
C5_Witness ==
  /\ pc = "compact"
  /\ \E k \in DOMAIN m_k : m_k[k] = 0
  /\ \E d \in DOMAIN n_dt : \E t \in DOMAIN n_dt[d] : n_dt[d][t] = 0
  /\ compact_params(State).err = ""
  /\ compact_params(State) # State

\* ---- C6 -----------------------------------------------------------------
\* document keys are 0..D-1 and the word-ids are 0..V-1
WellFormed(data) ==
  /\ DOMAIN data = 0..(Cardinality(DOMAIN data) - 1)
  /\ Vocab(data) = 0..(Cardinality(Vocab(data)) - 1)

\* every token on table 0, one table of topic 0 per document, the counts of
\* topic 0 are those of the whole corpus
InitResult ==
  /\ err = "" /\ K = 1
  /\ D = Cardinality(DOMAIN corpus) /\ V = Cardinality(Vocab(corpus))
  /\ DOMAIN t_dv = DOMAIN corpus /\ DOMAIN k_dt = DOMAIN corpus /\ DOMAIN n_dt = DOMAIN corpus
  /\ \A d \in DOMAIN corpus :
       /\ DOMAIN t_dv[d] = DOMAIN corpus[d]
       /\ \A i \in DOMAIN corpus[d] : t_dv[d][i] = 0
       /\ DOMAIN k_dt[d] = {0} /\ k_dt[d][0] = 0
       /\ DOMAIN n_dt[d] = {0} /\ n_dt[d][0] = ALen(corpus[d])
  /\ DOMAIN n_kv = {0} /\ DOMAIN n_kv[0] = 0..(V - 1)
  /\ \A v \in 0..(V - 1) :
       n_kv[0][v] = Cardinality({p \in Tokens(corpus, DOMAIN corpus) : corpus[p[1]][p[2]] = v})
  /\ DOMAIN n_kd = {0} /\ DOMAIN n_kd[0] = 0..(D - 1)
  /\ \A d \in 0..(D - 1) : n_kd[0][d] = ALen(corpus[d])
  /\ DOMAIN m_k = {0} /\ m_k[0] = D

\* [0,0,0,1,1] gives n_kv = [[3,2]], n_kd = [[5]], m_k = [1]
ScenarioInit ==
  LET s == initialize(Scenario)
  IN  /\ s.err = "" /\ s.K = 1 /\ s.V = 2 /\ s.D = 1
      /\ s.n_kv = [k \in {0} |-> [v \in {0, 1} |-> IF v = 0 THEN 3 ELSE 2]]
      /\ s.n_kd = [k \in {0} |-> [d \in {0} |-> 5]]
      /\ s.m_k = [k \in {0} |-> 1]
      /\ s.t_dv = [d \in {0} |-> Zeros(5)]
      /\ s.k_dt = [d \in {0} |-> Zeros(1)]
      /\ s.n_dt = [d \in {0} |-> [t \in {0} |-> 5]]

\* C6: for a corpus keyed 0..D-1 with word-ids 0..V-1 and K = 1, _initialize
\* seats every token on table 0 of topic 0: t_dv all zero, k_dt[d] = [0],
\* n_dt[d] = [len], n_kv[0][v] the corpus count of v, n_kd[0][d] = len,
\* m_k = [D]; [0,0,0,1,1] gives n_kv = [[3,2]], n_kd = [[5]], m_k = [1].
C6_Initialization ==
  [][(pc = "start" /\ WellFormed(corpus)) => (InitResult' /\ ScenarioInit)]_vars

\* two documents and two word-ids have just been initialized
C6_Witness ==
  /\ pc = "retract" /\ iter = 0 /\ document_index = 0 /\ word_index = 0
  /\ D = 2 /\ V = 2 /\ m_k[0] = 2

\* ---- C7 -----------------------------------------------------------------
\* what update_params(document_index, word_index, u) does to the fields
UpdateEffect(u) ==
  LET d == document_index
      t == t_dv[d][word_index]
      k == k_dt[d][t]
      v == corpus[d][word_index]
      turns == (u = -1 /\ n_dt[d][t] = 1) \/ (u = 1 /\ n_dt[d][t] = 0)
  IN  /\ n_dt' = [n_dt EXCEPT ![d][t] = @ + u]
      /\ n_kv' = [n_kv EXCEPT ![k][v] = @ + u]
      /\ n_kd' = [n_kd EXCEPT ![k][d] = @ + u]
      /\ m_k' = IF turns THEN [m_k EXCEPT ![k] = @ + u] ELSE m_k
      /\ K' = K /\ t_dv' = t_dv /\ k_dt' = k_dt /\ err' = ""

\* retracting token 0 of [0,0,0,1,1] leaves n_dt[0][0] = 4 and n_kv[0][0] = 2
ScenarioRetract ==
  LET s == update_params(initialize(Scenario), 0, 0, -1)
  IN  s.err = "" /\ s.n_dt[0][0] = 4 /\ s.n_kv[0][0] = 2 /\ s.n_kd[0][0] = 4 /\ s.m_k[0] = 1

\* C7: update_params(d, i, u) changes n_dt[d][t], n_kv[k][v] and n_kd[k][d] by
\* u for the token's table t, topic k and word v, changes m_k[k] by u exactly
\* when the table goes from 1 to 0 (u = -1) or from 0 to 1 (u = +1), and
\* leaves every other count, K, t_dv and k_dt as they are.
C7_UpdateEffect ==
  [][/\ pc = "retract" => (UpdateEffect(-1) /\ ScenarioRetract)
     /\ pc = "reseat"  => UpdateEffect(1)]_vars

\* the token before word_index has just been seated alone on a table, next to
\* another occupied table
C7_Witness ==
  /\ pc = "retract" /\ word_index >= 1
  /\ n_dt[document_index][t_dv[document_index][word_index - 1]] = 1
  /\ \E t \in DOMAIN n_dt[document_index] :
       t # t_dv[document_index][word_index - 1] /\ n_dt[document_index][t] > 0

\* ---- C9 -----------------------------------------------------------------
\* the largest variate of the grid: it falls in the last slot
MaxDraw(w) == 2 * ASum(w) - 1

\* sample, lines 122-180 under a random source that returns the largest
\* variate at every draw
ForcedSampleTable ==
  /\ pc = "draw"
  /\ LET d == document_index
     IN  Store(seat_word(State, d, word_index,
                         MaxDraw(TableWeights(State, d)),
                         MaxDraw(TopicWeights(open_table(State, d)))))
  /\ pc' = "reseat"
  /\ UNCHANGED <<iteration, iter, document_index, word_index, todo>>

\* one document that repeats word-id 0 as many times as numpy.uint8 has values
LongCorpus == [d \in {0} |-> Zeros(UInt8Mod)]

InitLong ==
  /\ corpus = LongCorpus
  /\ iteration = 1
  /\ pc = "start"
  /\ err = ""
  /\ K = 0 /\ D = 0 /\ V = 0
  /\ n_kv = EmptyArr /\ n_kd = EmptyArr /\ m_k = EmptyArr
  /\ t_dv = EmptyArr /\ k_dt = EmptyArr /\ n_dt = EmptyArr
  /\ iter = 0 /\ document_index = 0 /\ word_index = 0
  /\ todo = {}

\* the word-to-table steps of the first sweep over LongCorpus, every draw the
\* largest variate
NextForced == Initialize \/ Retract \/ ForcedSampleTable \/ Reseat

SpecForced == InitLong /\ [][NextForced]_vars

\* C9: a word-to-table step whose draws fall in the last slot of the table
\* distribution and of the topic distribution raises K by one and gives n_kv,
\* n_kd and m_k one more row of zeros, of shapes (K,V), (K,D) and K.
C9_ForcedNewTopic ==
  [][ForcedSampleTable =>
       /\ K' = K + 1
       /\ t_dv'[document_index][word_index] = ALen(k_dt[document_index])
       /\ n_kv' = Stack(n_kv, Zeros(V))
       /\ n_kd' = Stack(n_kd, Zeros(D))
       /\ m_k' = Stack(m_k, 0)
       /\ ALen(n_kv') = K' /\ ALen(n_kd') = K' /\ ALen(m_k') = K'
       /\ \A k \in 0..(K' - 1) : ALen(n_kv'[k]) = V /\ ALen(n_kd'[k]) = D]_vars

\* ---- C10 ----------------------------------------------------------------
\* C10: _initialize accepts any non-negative word-ids, contiguous or not: it
\* ends without error, V is the number of distinct word-ids and every token
\* is counted once in row 0 of n_kv.
C10_AnyWordIds ==
  [][(pc = "start" /\ DOMAIN corpus = 0..(Cardinality(DOMAIN corpus) - 1)) =>
       /\ err' = ""
       /\ V' = Cardinality(Vocab(corpus))
       /\ ASum(n_kv'[0]) = TotalLen(corpus, DOMAIN corpus)]_vars

\* ---- C11 ----------------------------------------------------------------
\* C11: _initialize accepts a corpus keyed by any set of document-ids, the
\* integers 0..D-1 or not: with word-ids 0..V-1 it fails on no lookup and
\* gives every document of the mapping its table vectors.
C11_AnyKeySet ==
  [][(pc = "start" /\ Vocab(corpus) = 0..(Cardinality(Vocab(corpus)) - 1)) =>
       /\ err' = ""
       /\ DOMAIN t_dv' = DOMAIN corpus]_vars

\* ---- C12 ----------------------------------------------------------------
\* what a compact_params call that starts in this state leaves behind: no
\* assert has failed, K is the number of topics with m_k # 0 and is at least
\* one, and n_kv, n_kd and m_k have K rows
CompactedShape ==
  /\ err' = ""
  /\ K' = Cardinality({k \in DOMAIN m_k : m_k[k] # 0})
  /\ K' = Cardinality({k \in DOMAIN m_k' : m_k'[k] # 0})
  /\ K' >= 1
  /\ DOMAIN n_kv' = 0..(K' - 1) /\ DOMAIN n_kd' = 0..(K' - 1) /\ DOMAIN m_k' = 0..(K' - 1)

C13_NewTableTopic ==
  pc = "draw" =>
    LET d == document_index
        i == word_index
        v == corpus[d][i]
        new_table == ALen(k_dt[d])
    IN  \A u \in Draws(TableWeights(State, d)) :
          DrawsNewTable(State, d, u) =>
            \A u2 \in Draws(TopicWeights(open_table(State, d))) :
              LET k_new  == UInt8(InvCDF(TopicWeights(open_table(State, d)), u2))
                  seated == seat_word(State, d, i, u, u2)
                  after  == update_params(seated, d, i, 1)
              IN  /\ seated.k_dt[d][new_table] = k_new
                  /\ after.n_kv[k_new][v] = seated.n_kv[k_new][v] + 1
                  /\ after.n_kd[k_new][d] = seated.n_kd[k_new][d] + 1
                  /\ after.m_k[k_new] = seated.m_k[k_new] + 1

\* ---- C14 ----------------------------------------------------------------
\* the tokens (d, i) of the corpus whose table is assigned to topic k
TokensOfTopic(k) ==
  {p \in Tokens(corpus, DOMAIN corpus) : k_dt[p[1]][t_dv[p[1]][p[2]]] = k}

\* the occupied tables (d, t) assigned to topic k
TablesOfTopic(k) ==
  {p \in UNION {{<<d, t>> : t \in DOMAIN k_dt[d]} : d \in DOMAIN k_dt} :
     n_dt[p[1]][p[2]] > 0 /\ k_dt[p[1]][p[2]] = k}

\* C14: after initialization and after every completed token resampling,
\* table resampling and compaction the counts are those of the assignments:
\* n_dt[d][t] is the number of tokens of d on table t, n_kv[k][v] the number
\* of tokens of word v whose table has topic k (so sum(n_kv[k]) is the number
\* of tokens of topic k), n_kd[k][d] the number of tokens of d of topic k and
\* m_k[k] the number of occupied tables of topic k.
C14_Statistics ==
  Settled =>
    /\ \A d \in 0..(D - 1) : \A t \in DOMAIN n_dt[d] :
         n_dt[d][t] = Cardinality({i \in DOMAIN t_dv[d] : t_dv[d][i] = t})
    /\ \A k \in 0..(K - 1) :
         /\ \A v \in 0..(V - 1) :
              n_kv[k][v] = Cardinality({p \in TokensOfTopic(k) : corpus[p[1]][p[2]] = v})
         /\ ASum(n_kv[k]) = Cardinality(TokensOfTopic(k))
         /\ \A d \in 0..(D - 1) :
              n_kd[k][d] = Cardinality({p \in TokensOfTopic(k) : p[1] = d})
         /\ m_k[k] = Cardinality(TablesOfTopic(k))

\* two topics have tables, and some document has an emptied table next to
\* two occupied ones
C14_Witness ==
  /\ Settled
  /\ \E k1, k2 \in DOMAIN m_k : k1 # k2 /\ m_k[k1] > 0 /\ m_k[k2] > 0
  /\ \E d \in 0..(D - 1) :
       /\ \E t \in DOMAIN n_dt[d] : n_dt[d][t] = 0
       /\ Cardinality(Occupied(State, d)) >= 2

\* ---- C15 ----------------------------------------------------------------
\* the index of topic k, and of table t of document d, once the unused ones
\* below it are gone
NewTopic(k) == Cardinality({h \in 0..(k - 1) : m_k[h] # 0})

NewTable(d, t) == Cardinality({h \in 0..(t - 1) : n_dt[d][h] # 0})

\* C15: a compact_params call that returns removes exactly the topics with
\* m_k = 0 and, per document, exactly the tables with n_dt = 0; the surviving
\* rows of n_kv, n_kd, m_k and entries of n_dt[d] keep their values and their
\* relative order; every token is on the renumbered table it was on, of the
\* same occupancy, and every table on the renumbered topic it was on, with
\* the same n_kv, n_kd and m_k row.
C15_CompactFrame ==
  [][(pc = "compact" /\ err' = "") =>
       /\ D' = D /\ V' = V /\ corpus' = corpus
       /\ K' = Cardinality({k \in DOMAIN m_k : m_k[k] # 0})
       /\ DOMAIN m_k' = 0..(K' - 1) /\ DOMAIN n_kv' = 0..(K' - 1) /\ DOMAIN n_kd' = 0..(K' - 1)
       /\ \A k \in DOMAIN m_k :
            m_k[k] # 0 => /\ m_k'[NewTopic(k)] = m_k[k]
                          /\ n_kv'[NewTopic(k)] = n_kv[k]
                          /\ n_kd'[NewTopic(k)] = n_kd[k]
       /\ \A d \in 0..(D - 1) :
            /\ DOMAIN n_dt'[d] = 0..(Cardinality({t \in DOMAIN n_dt[d] : n_dt[d][t] # 0}) - 1)
            /\ DOMAIN k_dt'[d] = DOMAIN n_dt'[d]
            /\ \A t \in DOMAIN n_dt[d] :
                 n_dt[d][t] # 0 =>
                   /\ n_dt'[d][NewTable(d, t)] = n_dt[d][t]
                   /\ k_dt'[d][NewTable(d, t)] = NewTopic(k_dt[d][t])
                   /\ m_k'[k_dt'[d][NewTable(d, t)]] = m_k[k_dt[d][t]]
                   /\ n_kv'[k_dt'[d][NewTable(d, t)]] = n_kv[k_dt[d][t]]
                   /\ n_kd'[k_dt'[d][NewTable(d, t)]] = n_kd[k_dt[d][t]]
            /\ DOMAIN t_dv'[d] = DOMAIN t_dv[d]
            /\ \A i \in DOMAIN t_dv[d] :
                 /\ t_dv'[d][i] = NewTable(d, t_dv[d][i])
                 /\ n_dt'[d][t_dv'[d][i]] = n_dt[d][t_dv[d][i]]]_vars

\* a sweep ends with an unused topic below a used one and, in some document,
\* an empty table below an occupied one, and the compaction returns
C15_Witness ==
  /\ pc = "compact"
  /\ \E k1, k2 \in DOMAIN m_k : k1 < k2 /\ m_k[k1] = 0 /\ m_k[k2] # 0
  /\ \E d \in 0..(D - 1) : \E t1, t2 \in DOMAIN n_dt[d] :
       t1 < t2 /\ n_dt[d][t1] = 0 /\ n_dt[d][t2] # 0
  /\ compact_params(State).err = ""

\* ---- C16 ----------------------------------------------------------------
\* C16: a table-to-topic step for a table whose topic k_old has m_k[k_old] <= 1
\* never leaves the table on k_old: its new topic is another existing topic
\* with m_k > 0 or the brand-new index K, and afterwards m_k[k_old] = 0 and
\* the row n_kv[k_old] is all zero.
C16_LastTableMoves ==
  [][(pc = "table" /\ err' = "") =>
       \A t \in todo \ todo' :
         LET d     == document_index
             k_old == k_dt[d][t]
         IN  m_k[k_old] <= 1 =>
               /\ k_dt'[d][t] # k_old
               /\ k_dt'[d][t] = K \/ m_k[k_dt'[d][t]] > 0
               /\ m_k'[k_old] = 0
               /\ \A v \in DOMAIN n_kv'[k_old] : n_kv'[k_old][v] = 0]_vars

\* ---- C17 ----------------------------------------------------------------
\* C17: after initialization and after every completed token resampling,
\* table resampling and compaction, also between compactions, m_k[k] is zero
\* exactly when no entry k_dt[d][t], that of an emptied table included,
\* equals k.
C17_NoStaleTopic ==
  Settled =>
    \A k \in 0..(K - 1) :
      (m_k[k] = 0) <=> ~(\E d \in DOMAIN k_dt : \E t \in DOMAIN k_dt[d] : k_dt[d][t] = k)

\* ---- C18 ----------------------------------------------------------------
\* the sum of column c of the matrix m
ColSum(m, c) == ASum([k \in DOMAIN m |-> m[k][c]])

\* C18: a table-to-topic step for table t of document d changes no n_dt
\* entry, no t_dv entry and the length of no k_dt[d]; it changes at most
\* k_dt[d][t], m_k and the n_kd and n_kv rows of the old and the new topic,
\* appending one row when the new topic is brand-new; the sum of n_kv over
\* the topics for every word, the sum of n_kd over the topics for every
\* document and the sum of m_k are what they were.
C18_TableStepFrame ==
  [][(pc = "table" /\ err' = "") =>
       \A t \in todo \ todo' :
         LET d   == document_index
             old == k_dt[d][t]
             new == k_dt'[d][t]
         IN  /\ n_dt' = n_dt /\ t_dv' = t_dv
             /\ corpus' = corpus /\ D' = D /\ V' = V
             /\ DOMAIN k_dt' = DOMAIN k_dt
             /\ \A e \in DOMAIN k_dt :
                  /\ DOMAIN k_dt'[e] = DOMAIN k_dt[e]
                  /\ \A x \in DOMAIN k_dt[e] : (e # d \/ x # t) => k_dt'[e][x] = k_dt[e][x]
             /\ K' = K \/ (K' = K + 1 /\ new = K)
             /\ DOMAIN m_k' = 0..(K' - 1) /\ DOMAIN n_kv' = 0..(K' - 1) /\ DOMAIN n_kd' = 0..(K' - 1)
             /\ \A k \in 0..(K - 1) :
                  (k # old /\ k # new) => (n_kv'[k] = n_kv[k] /\ n_kd'[k] = n_kd[k])
             /\ \A v \in 0..(V - 1) : ColSum(n_kv', v) = ColSum(n_kv, v)
             /\ \A e \in 0..(D - 1) : ColSum(n_kd', e) = ColSum(n_kd, e)
             /\ ASum(m_k') = ASum(m_k)]_vars

\* in the first sweep a table of two tokens sits on a topic other than 0:
\* only a table-to-topic step can have put it there
C18_Witness ==
  /\ Settled /\ iter = 0
  /\ \E d \in 0..(D - 1) : \E t \in DOMAIN k_dt[d] : n_dt[d][t] >= 2 /\ k_dt[d][t] >= 1

\* ---- C19 ----------------------------------------------------------------
\* C19: after initialization and after every completed token resampling,
\* table resampling and compaction, k_dt[d] and n_dt[d] have the same length
\* for every document d, every t_dv[d][i] is an index of k_dt[d] and n_dt[d],
\* and every k_dt[d][t] is a topic index in [0, K).
C19_Structure ==
  Settled =>
    /\ DOMAIN k_dt = 0..(D - 1) /\ DOMAIN n_dt = 0..(D - 1) /\ DOMAIN t_dv = 0..(D - 1)
    /\ \A d \in 0..(D - 1) :
         /\ DOMAIN k_dt[d] = 0..(ALen(k_dt[d]) - 1)
         /\ DOMAIN n_dt[d] = DOMAIN k_dt[d]
         /\ DOMAIN t_dv[d] = DOMAIN corpus[d]
         /\ \A i \in DOMAIN t_dv[d] : t_dv[d][i] \in DOMAIN k_dt[d]
         /\ \A t \in DOMAIN k_dt[d] : k_dt[d][t] \in 0..(K - 1)

\* a compaction has removed tables and topics and left a document with two
\* tables on two topics, and the next sweep has opened a table again
C19_Witness ==
  /\ Settled /\ iter >= 1 /\ K >= 2
  /\ \E d \in 0..(D - 1) :
       /\ ALen(k_dt[d]) >= 3
       /\ \E t1, t2 \in DOMAIN k_dt[d] : k_dt[d][t1] # k_dt[d][t2]

\* ---- C20 ----------------------------------------------------------------
\* sample() has neither returned nor raised
Running == pc \notin {"done", "error"}

\* the interpreter moves on inside _initialize / sample(): the position pc
\* changes, or the table loop takes one more table of its permutation
LoopStep ==
  /\ Running
  /\ \/ /\ pc' \in {"retract", "draw", "reseat", "table", "compact", "done", "error"} \ {pc}
        /\ todo' = todo
     \/ /\ pc' = pc
        /\ \E t \in todo : todo' = todo \ {t}

\* the loops of sample() are sequential code with nothing to wait for: while
\* the program is running it keeps executing statements.  Every step of Next
\* changes <<pc, todo>>, so the fairness is stated on the position alone.
FairSpec == Spec /\ WF_<<pc, todo>>(LoopStep)

\* what one step does to the position inside sample(N): tokens in document
\* order and token order, retraction, draw and re-seating of one token before
\* the next; then every occupied table of the document once; then the next
\* document, or after the last one the compaction, which ends the sweep; and
\* outside the compaction no topic or table index goes away or is renumbered
SweepStep ==
  LET d == document_index
      i == word_index
  IN  /\ (pc = "start" /\ err' = "") =>
           /\ iter' = 0 /\ document_index' = 0 /\ word_index' = 0
           /\ pc' = IF D' = 0 THEN "compact" ELSE "retract"
      /\ pc = "retract" =>
           pc' = "draw" /\ iter' = iter /\ document_index' = d /\ word_index' = i
      /\ pc = "draw" =>
           pc' = "reseat" /\ iter' = iter /\ document_index' = d /\ word_index' = i
      /\ pc = "reseat" =>
           /\ iter' = iter /\ document_index' = d
           /\ IF i + 1 < ALen(corpus[d])
              THEN pc' = "retract" /\ word_index' = i + 1
              ELSE pc' = "table" /\ todo' = {t \in DOMAIN n_dt'[d] : n_dt'[d][t] > 0}
      /\ pc = "table" =>
           /\ iter' = iter /\ todo # {}
           /\ \E t \in todo : todo' = todo \ {t} /\ n_dt[d][t] > 0
           /\ IF todo' # {}
              THEN pc' = "table" /\ document_index' = d
              ELSE IF d + 1 < D
                   THEN pc' = "retract" /\ document_index' = d + 1 /\ word_index' = 0
                   ELSE pc' = "compact"
      /\ pc = "compact" =>
           /\ err' = "" /\ iter' = iter + 1
           /\ IF iter + 1 < iteration
              THEN pc' = "retract" /\ document_index' = 0 /\ word_index' = 0
              ELSE pc' = "done"
      /\ pc \in {"retract", "draw", "reseat", "table"} =>
           /\ K' >= K
           /\ \A e \in 0..(D - 1) :
                /\ DOMAIN k_dt[e] \subseteq DOMAIN k_dt'[e]
                /\ DOMAIN n_dt[e] \subseteq DOMAIN n_dt'[e]
                /\ \A j \in DOMAIN t_dv[e] :
                     (pc # "draw" \/ e # d \/ j # i) => t_dv'[e][j] = t_dv[e][j]
                /\ \A t \in DOMAIN k_dt[e] :
                     (pc # "table" \/ e # d \/ t \notin todo) => k_dt'[e][t] = k_dt[e][t]

\* sample(iteration) has been entered: _initialize has returned
Sampling == pc \notin {"start", "error"}

C21_NoEmptyTable ==
  [][pc = "draw" =>
       LET d == document_index
           t == t_dv'[d][word_index]
       IN  t = ALen(k_dt[d]) \/ (t \in DOMAIN n_dt[d] /\ n_dt[d][t] > 0)]_vars

\* ---- C22 ----------------------------------------------------------------
\* C22: the index a categorical draw stores is the inverse-CDF index itself,
\* for any number of slots: the word-to-table step stores the first table
\* slot whose cumulative weight reaches the variate, and when that is the
\* new-table slot the document gets one more table; when the topic drawn for
\* it is the new-topic slot K, K grows by one.
C22_NoWrapAround ==
  [][ForcedSampleTable =>
       LET d         == document_index
           new_table == InvCDF(TableWeights(State, d), MaxDraw(TableWeights(State, d)))
           opened    == open_table(State, d)
           k_new     == InvCDF(TopicWeights(opened), MaxDraw(TopicWeights(opened)))
       IN  /\ t_dv'[d][word_index] = new_table
           /\ new_table = ALen(k_dt[d]) =>
                /\ ALen(k_dt'[d]) = ALen(k_dt[d]) + 1
                /\ k_new = K => K' = K + 1]_vars
====
